---------------------------- MODULE Spec2Model ----------------------------
(***************************************************************************)
(* A model of FindUrVoicesPJSK's Client (src/app/_client.py) and of its    *)
(* driver (src/main.py):                                                   *)
(*   - Client._get, the retrying HTTP GET                    (SpecGet)     *)
(*   - the on-disk cache store _load_cache / _save_cache      (SpecCache)  *)
(*   - the start-up load of the reference datasets            (SpecLoad)   *)
(*   - Client.start and the download operations it runs       (Spec)       *)
(*   - the same run with the terminal interrupt         (SpecInterrupt)    *)
(*   - the download operations called directly             (SpecDirect)    *)
(*   - the task selection code over small inputs           (SpecSelect)    *)
(* Each part has its own variables; a specification parks the variables of *)
(* the other parts at their initial value.                                 *)
(***************************************************************************)
EXTENDS Integers, Sequences, FiniteSets, TLC

VARIABLES
    \* ---- Client configuration and Client._get
    max_retries,   \* self._max_retries, fixed at construction
    wait_time,     \* self._wait_time, in tenths of a second
    get_pc,        \* position inside _get: "loop", "sleep", or how it ended
    retries,       \* the local counter `retries`
    get_log,       \* ghost: the GETs issued and the sleeps taken, in order
    get_result,    \* the value _get returned, None, or NoResult while running
    \* ---- the cache store
    now,           \* time.time(), in seconds
    cache_files,   \* the files of self._cache_dir: key -> NoFile or [mtime, text]
    saved,         \* ghost: key -> the payload and time of the last _save_cache
                   \* call for the key if it succeeded, NoResult otherwise
    loaded,        \* the call _load_cache(key) that has just returned, and its
                   \* value; NoResult when the last step was not a load
    \* ---- Client._download_data, the start-up load
    fetch_state,   \* key -> state of the future of fetch(key, url): "queued",
                   \* "running", "returned" or "raised"
    fetch_value,   \* key -> the value fetch returned, NoResult before
    fetch_net,     \* ghost: key -> what the network did for the key: "none"
                   \* (no request issued), "ok" or "fails" (every attempt)
    attrs,         \* key -> the attribute set by setattr(self, key, ...), NoResult
                   \* while unset
    load_pc,       \* the constructing thread: "collect", "join", "ready", "crashed"
    indexes,       \* the indexes of _build_indexes, NoResult until built
    \* ---- Client.start and the download operations
    download_workers,  \* the constructor's argument download_workers
    save_texts,        \* self._save_texts
    manifest_handle,   \* self._manifest_file_instance: Closed, or open in a directory
    manifest,          \* directory -> the lines appended to its manifest file
                       \* since the current start() call began
    files,             \* the destination files written since the current start()
                       \* call began, with what was written
    pc,                \* the main thread: "menu", "run", "cards_loop", "collect",
                       \* "join" or "crashed"
    phases,            \* the operations start() has still to call, in order
    character_id,      \* the selected character
    card_voices_count, \* the card voice cap typed in
    batch,             \* the tasks submitted to the current ThreadPoolExecutor
    batch_kind,        \* "S", "P" or "C": which operation submitted them
    batch_stop,        \* the result loop was left by the `return` on a failed task
    batch_return,      \* what the batch call returned to its caller
    progress,          \* the counter n of the tqdm bar in use
    index,             \* the local `index` of the running operation
    remaining_target,  \* the local `remaining_target` of the card operation
    card_pos,          \* position of the card loop in character_cards
    scen_pos,          \* position of the scenario loop in scenario_ids
    produced,          \* ghost: the tasks built so far by the running operation
    docs_fetched,      \* ghost: the scenario documents requested so far in this
                       \* start() call, each with Len(produced) at that moment
    faults,            \* ghost: the failures the environment has injected so far
    crash_why,         \* ghost: the exception that ended the process, "" if none
    \* ---- the process around the Client (main.py) and direct use of the class
    transport,         \* self._client, the httpx.Client: "open" or "closed"
    calls,             \* ghost: the operations called directly so far
    \* ---- the task selection code taken alone
    sel_in,            \* the arguments and reference data of one selection
    sel_out            \* the task list it built (as value), NoResult before

loadVars == <<fetch_state, fetch_value, fetch_net, attrs, load_pc, indexes>>
poolVars ==
    <<download_workers, save_texts, manifest_handle, manifest, files, pc, phases,
      character_id, card_voices_count, batch, batch_kind, batch_stop, batch_return,
      progress, index, remaining_target, card_pos, scen_pos, produced,
      docs_fetched, faults, crash_why>>
getVars == <<max_retries, wait_time, get_pc, retries, get_log, get_result>>
cacheVars == <<now, cache_files, saved, loaded>>
procVars == <<transport, calls>>
selVars == <<sel_in, sel_out>>
vars == <<getVars, cacheVars, loadVars, poolVars, procVars, selVars>>

\* What an action of one part leaves alone.
notGet == <<cacheVars, loadVars, poolVars, procVars, selVars>>
notCache == <<getVars, loadVars, poolVars, procVars, selVars>>
\* The start-up load uses max_retries, now and cache_files.
notLoad == <<wait_time, get_pc, retries, get_log, get_result, saved, loaded, poolVars,
             procVars, selVars>>
notPool == <<getVars, cacheVars, loadVars, procVars, selVars>>

(***************************************************************************)
(* Part 1.  Client._get  (src/app/_client.py:65-78)                        *)
(***************************************************************************)
\* The largest configured attempt count explored (the constructor's default
\* is 5, src/app/_client.py:22).
MaxAttemptsBound == 5

\* Python's None, and the placeholder of a call that has not ended.
None == [none |-> TRUE]
NoResult == [running |-> TRUE]

\* wait_time values explored: main.py passes 0.3 s, the constructor's
\* default is 1 s; in tenths of a second.
WaitTimes == {3, 10}

\* What the transport can answer when it does answer: httpx returns a
\* Response for every status code, 404 included, with or without a body.
StatusCodes == {200, 404}
Contents == {"", "bytes"}

\* The response of the attempt-th call of self._client.get inside one _get.
Response(attempt, status, content) ==
    [attempt |-> attempt, status |-> status, content |-> content]

\* line 67: while retries < self._max_retries
CanAttemptMutant(r, m) == r <= m
CanAttempt(r, m) == r < m

\* line 73: if retries < self._max_retries (sleep and retry, else raise)
ShouldRetryMutant(r, m) == r <= m
ShouldRetry(r, m) == r < m

GetInit ==
    /\ max_retries \in 0..MaxAttemptsBound
    /\ wait_time \in WaitTimes
    /\ get_pc = "loop"
    /\ retries = 0
    /\ get_log = <<>>
    /\ get_result = NoResult

\* lines 67-70: the loop condition holds, the transport answers, return it.
GetAttemptOk ==
    /\ get_pc = "loop"
    /\ CanAttempt(retries, max_retries)
    /\ \E s \in StatusCodes, c \in Contents :
          get_result' = Response(retries + 1, s, c)
    /\ get_log' = Append(get_log, <<"get", 0>>)
    /\ get_pc' = "returned"
    /\ UNCHANGED <<max_retries, wait_time, retries, notGet>>

\* lines 67-77: the transport raises; count it, then sleep or raise.
GetAttemptFail ==
    /\ get_pc = "loop"
    /\ CanAttempt(retries, max_retries)
    /\ retries' = retries + 1
    /\ get_log' = Append(get_log, <<"get", 0>>)
    /\ get_pc' = IF ShouldRetry(retries + 1, max_retries) THEN "sleep" ELSE "raised"
    /\ UNCHANGED <<max_retries, wait_time, get_result, notGet>>

\* line 75: time.sleep(self._wait_time), then back to the loop head.
GetSleep ==
    /\ get_pc = "sleep"
    /\ get_log' = Append(get_log, <<"sleep", wait_time>>)
    /\ get_pc' = "loop"
    /\ UNCHANGED <<max_retries, wait_time, retries, get_result, notGet>>

\* line 78: the loop condition fails, return None.
GetLoopExit ==
    /\ get_pc = "loop"
    /\ ~CanAttempt(retries, max_retries)
    /\ get_result' = None
    /\ get_pc' = "none"
    /\ UNCHANGED <<max_retries, wait_time, retries, get_log, notGet>>

\* Ghost readings of get_log.
GetAttempts == Len(SelectSeq(get_log, LAMBDA e : e = <<"get", 0>>))
GetWaits == Len(SelectSeq(get_log, LAMBDA e : e = <<"sleep", wait_time>>))
\* GETs and sleeps alternate, beginning with a GET: exactly one wait of the
\* configured delay lies between two consecutive attempts.
GetLogAlternates ==
    \A i \in 1..Len(get_log) :
        get_log[i] = IF i % 2 = 1 THEN <<"get", 0>> ELSE <<"sleep", wait_time>>

\* C1: retry budget of Client._get.  For every configured maximum M >= 1:
\* no more than M GETs are ever issued; _get ends only by returning a
\* response or by raising (never by returning None); when it raises, exactly
\* M GETs were issued, all failed, with exactly M-1 waits of the configured
\* delay, one between each two consecutive GETs; when it returns, the value
\* is the response of the k-th GET, k <= M, after exactly k GETs and k-1
\* waits.
C1_RetryBudget ==
    max_retries >= 1 =>
        /\ GetAttempts <= max_retries
        /\ GetLogAlternates
        /\ get_pc # "none"
        /\ get_pc = "raised" =>
              /\ GetAttempts = max_retries
              /\ GetWaits = max_retries - 1
              /\ retries = max_retries
              /\ get_result = NoResult
        /\ get_pc = "returned" =>
              /\ get_result \notin {None, NoResult}
              /\ get_result.attempt = GetAttempts
              /\ get_result.attempt <= max_retries
              /\ GetWaits = get_result.attempt - 1
              /\ retries = get_result.attempt - 1
        /\ get_pc \in {"loop", "sleep"} => get_result = NoResult

\* C1 witness: with max attempts 3 the transport failed three times and the
\* fatal error was raised after two waits.
C1_Witness ==
    /\ max_retries = 3
    /\ get_pc = "raised"
    /\ GetAttempts = 3
    /\ GetWaits = 2

(***************************************************************************)
(* Part 2.  The cache store  (src/app/_client.py:80-103)                   *)
(***************************************************************************)
\* line 43: self._cache_ttl_seconds = 30 * 24 * 60 * 60
CacheTtlSeconds == 30 * 24 * 60 * 60

\* The clock is observed at p TTL periods plus 0 or 1 second, p up to this.
MaxPeriods == 1
\* The longest dataset payload (a JSON array of record ids) explored.
MaxPayloadLen == 1

ClockValues == {p * CacheTtlSeconds + q : p \in 0..MaxPeriods, q \in 0..1}

\* lines 107-113: the keys of `endpoints`, in the dict's order.
EndpointKeys ==
    <<"_characters", "_musics", "_music_vocals", "_character_profiles",
      "_character_2ds", "_cards", "_cards_episodes">>
\* The keys whose cache files the cache-store specification exercises.
CacheKeysExplored == {EndpointKeys[1], EndpointKeys[2]}

NoFile == [exists |-> FALSE]

\* JSON values as response.json() yields them: an array of record ids, or
\* the empty object (the loader's default value {}).
JsonArray(items) == [type |-> "array", items |-> items]
JsonObject == [type |-> "object", items |-> <<>>]
JsonError == [error |-> TRUE]
RecordIds == {0, 1}
SeqsUpTo(S, n) == UNION {[1..k -> S] : k \in 0..n}
\* A dataset lists each record id once.
Distinct(x) == \A i, j \in 1..Len(x) : x[i] = x[j] => i = j
Payloads ==
    {JsonArray(x) : x \in {y \in SeqsUpTo(RecordIds, MaxPayloadLen) : Distinct(y)}}
        \cup {JsonObject}

NumTok(n) == IF n = 0 THEN "0" ELSE "1"
TokNum(t) == IF t = "0" THEN 0 ELSE 1
IsNumTok(t) == t \in {"0", "1"}

\* json.dump (line 101): the text of a value, as a sequence of tokens, with
\* json's default ", " item separator.
JsonDumpItems(items) ==
    [i \in 1..(IF Len(items) = 0 THEN 0 ELSE 2 * Len(items) - 1) |->
        IF i % 2 = 1 THEN NumTok(items[(i + 1) \div 2]) ELSE ", "]
JsonDump(v) ==
    IF v.type = "object" THEN <<"{", "}">>
    ELSE <<"[">> \o JsonDumpItems(v.items) \o <<"]">>

\* json.load (line 91): the value a text parses to, JsonError when the text
\* is not a complete JSON document (json.load raises).
JsonLoadMutant(text) ==
    IF Len(text) >= 2 /\ text[1] = "[" /\ text[Len(text)] = "]"
    THEN JsonArray(<<>>)
    ELSE IF text = <<"{", "}">> THEN JsonObject ELSE JsonError
JsonLoad(text) ==
    IF text = <<"{", "}">> THEN JsonObject
    ELSE IF Len(text) >= 2 /\ text[1] = "[" /\ text[Len(text)] = "]"
    THEN LET inner == SubSeq(text, 2, Len(text) - 1)
         IN  IF inner = <<>> THEN JsonArray(<<>>)
             ELSE IF /\ Len(inner) % 2 = 1
                     /\ \A i \in 1..Len(inner) :
                           IF i % 2 = 1 THEN IsNumTok(inner[i]) ELSE inner[i] = ", "
             THEN JsonArray([j \in 1..((Len(inner) + 1) \div 2) |->
                                TokNum(inner[2 * j - 1])])
             ELSE JsonError
    ELSE JsonError

\* line 87: time.time() - os.path.getmtime(path) > self._cache_ttl_seconds
IsStaleMutant(t, mtime) == mtime - t > CacheTtlSeconds
IsStale(t, mtime) == t - mtime > CacheTtlSeconds

\* _load_cache (lines 83-94) on the cache files fs at time t.
LoadCache(fs, key, t) ==
    IF fs[key] = NoFile THEN None
    ELSE IF IsStale(t, fs[key].mtime) THEN None
    ELSE IF JsonLoad(fs[key].text) = JsonError THEN None
    ELSE JsonLoad(fs[key].text)

\* How the write of _save_cache (lines 100-101) can end: it completes; open
\* raises and the file is left as it was; or the write raises after `cut`
\* tokens, the file having been truncated by open(path, "w").
SaveOutcomes(text) ==
    {[kind |-> "ok", cut |-> Len(text)], [kind |-> "open_fails", cut |-> 0]}
        \cup {[kind |-> "write_fails", cut |-> k] : k \in 0..(Len(text) - 1)}

\* The cache file of a key after _save_cache(key, data) at time t.
SavedFile(old, data, t, outcome) ==
    IF outcome.kind = "open_fails" THEN old
    ELSE [exists |-> TRUE, mtime |-> t, text |-> SubSeq(JsonDump(data), 1, outcome.cut)]

CacheInit ==
    /\ now = 0
    /\ cache_files = [k \in CacheKeysExplored |-> NoFile]
    /\ saved = [k \in CacheKeysExplored |-> NoResult]
    /\ loaded = NoResult

\* Time passes.
CacheTick ==
    /\ \E t \in ClockValues : t > now /\ now' = t
    /\ loaded' = NoResult
    /\ UNCHANGED <<cache_files, saved, notCache>>

\* _save_cache(key, data), lines 96-103, under self._cache_lock; a failure
\* is logged and swallowed.
CacheSave ==
    \E key \in CacheKeysExplored, data \in Payloads :
      \E outcome \in SaveOutcomes(JsonDump(data)) :
        /\ cache_files' = [cache_files EXCEPT
                              ![key] = SavedFile(cache_files[key], data, now, outcome)]
        /\ saved' = [saved EXCEPT
                        ![key] = IF outcome.kind = "ok"
                                 THEN [payload |-> data, time |-> now]
                                 ELSE NoResult]
        /\ loaded' = NoResult
        /\ UNCHANGED <<now, notCache>>

\* _load_cache(key), lines 83-94.
CacheLoad ==
    \E key \in CacheKeysExplored :
        /\ loaded' = [key |-> key, value |-> LoadCache(cache_files, key, now)]
        /\ UNCHANGED <<now, cache_files, saved, notCache>>

\* C10: cache round trip and TTL.  Whenever _load_cache(key) has just
\* returned: (a) if the last _save_cache of that key succeeded and less than
\* the TTL has passed since, the value equals the saved payload; (b) if the
\* key's file is older than the TTL the value is None (absent), whatever was
\* saved; (c) a value other than None comes from an existing file that is
\* not older than the TTL.
C10_CacheRoundTripAndTtl ==
    loaded # NoResult =>
        LET f == cache_files[loaded.key]
            s == saved[loaded.key]
        IN  /\ (s # NoResult /\ now - s.time < CacheTtlSeconds) =>
                   loaded.value = s.payload
            /\ (f # NoFile /\ now - f.mtime > CacheTtlSeconds) =>
                   loaded.value = None
            /\ loaded.value # None =>
                   (f # NoFile /\ now - f.mtime <= CacheTtlSeconds)

\* C10 witness: a non-empty payload saved earlier is loaded back within the
\* TTL, one second before it expires.
C10_Witness ==
    /\ loaded # NoResult
    /\ saved[loaded.key] # NoResult
    /\ now - saved[loaded.key].time = CacheTtlSeconds - 1
    /\ loaded.value = saved[loaded.key].payload
    /\ loaded.value.type = "array"
    /\ Len(loaded.value.items) > 0


(***************************************************************************)
(* Part 3.  Client._download_data, the start-up load                       *)
(*          (src/app/_client.py:105-152)                                   *)
(***************************************************************************)
\* At most this many datasets start with a missing or stale cache file; the
\* others have a fresh one.
MaxColdKeys == 1
\* The datasets that may start without a fresh cache file: one that
\* _build_indexes does not index and one that it does (fetch treats every
\* key alike).
ColdCandidates == {"_characters", "_musics"}

AllKeys == {EndpointKeys[i] : i \in 1..Len(EndpointKeys)}
KeyPos(k) == CHOOSE i \in 1..Len(EndpointKeys) : EndpointKeys[i] = k

\* line 132: max_workers = min(8, len(endpoints))
LoadWorkersMutant == 2 * Len(EndpointKeys)
LoadWorkers == IF 8 < Len(EndpointKeys) THEN 8 ELSE Len(EndpointKeys)

\* The start-up happens at this time; a file written at time 1 is then as
\* old as the TTL allows, one written at time 0 is stale.
StartupTime == CacheTtlSeconds + 1
\* max_retries as configured: 5 is the default main.py runs with; 0 makes
\* _get return None without a request (line 78).
LoadRetryConfigs == {0, 5}
\* The payload in a dataset's cache file, and the one the endpoint serves.
CachedPayload == JsonArray(<<0>>)
ServedPayload == JsonArray(<<0, 1>>)

FreshFile == [exists |-> TRUE, mtime |-> 1, text |-> JsonDump(CachedPayload)]
StaleFile == [exists |-> TRUE, mtime |-> 0, text |-> JsonDump(CachedPayload)]

\* lines 142-152: the datasets _build_indexes indexes, and what it builds
\* (per dataset, the set of the ids of its records; iterating the default
\* value {} yields nothing).
IndexedKeys == {"_musics", "_character_2ds", "_character_profiles", "_cards", "_cards_episodes"}
BuildIndexes(a) ==
    [k \in IndexedKeys |-> {a[k].items[i] : i \in 1..Len(a[k].items)}]

\* What _get(url) gives fetch when the cache missed: no request at all and
\* None when the loop never runs; else the response, or the error raised
\* after the last attempt failed.
GetForFetch(m, net) ==
    IF ~CanAttempt(0, m) THEN "none"
    ELSE IF net = "ok" THEN "response" ELSE "raised"

\* line 126: return cache_hit if cache_hit is not None else {}
FetchFallback(cache_hit) == IF cache_hit # None THEN cache_hit ELSE JsonObject

LoadInit ==
    /\ max_retries \in LoadRetryConfigs
    /\ now = StartupTime
    /\ cache_files \in [AllKeys -> {NoFile, StaleFile, FreshFile}]
    /\ Cardinality({k \in AllKeys : cache_files[k] # FreshFile}) <= MaxColdKeys
    /\ \A k \in AllKeys : cache_files[k] # FreshFile => k \in ColdCandidates
    /\ fetch_state = [k \in AllKeys |-> "queued"]
    /\ fetch_value = [k \in AllKeys |-> NoResult]
    /\ fetch_net = [k \in AllKeys |-> "none"]
    /\ attrs = [k \in AllKeys |-> NoResult]
    /\ load_pc = "collect"
    /\ indexes = NoResult

FetchRunning == {k \in AllKeys : fetch_state[k] = "running"}
FetchQueued == {k \in AllKeys : fetch_state[k] = "queued"}

\* A pool thread takes the next work item: the executor's queue is first
\* in, first out, and it runs at most max_workers threads.
FetchStart ==
    \E k \in FetchQueued :
        /\ \A j \in FetchQueued : KeyPos(k) <= KeyPos(j)
        /\ Cardinality(FetchRunning) < LoadWorkers
        /\ load_pc \in {"collect", "join"}
        /\ fetch_state' = [fetch_state EXCEPT ![k] = "running"]
        /\ UNCHANGED <<max_retries, now, cache_files, fetch_value, fetch_net,
                       attrs, load_pc, indexes, notLoad>>

\* fetch(key, url), lines 116-120: the cache has the dataset.
FetchCacheHit ==
    \E k \in FetchRunning :
        /\ LoadCache(cache_files, k, now) # None
        /\ fetch_state' = [fetch_state EXCEPT ![k] = "returned"]
        /\ fetch_value' = [fetch_value EXCEPT ![k] = LoadCache(cache_files, k, now)]
        /\ UNCHANGED <<max_retries, now, cache_files, fetch_net, attrs, load_pc,
                       indexes, notLoad>>

\* fetch(key, url), lines 116-130: the cache misses, the dataset is
\* requested, parsed, saved and returned.
FetchDownload ==
    \E k \in FetchRunning :
        /\ LoadCache(cache_files, k, now) = None
        /\ GetForFetch(max_retries, "ok") = "response"
        /\ \E outcome \in SaveOutcomes(JsonDump(ServedPayload)) :
              cache_files' = [cache_files EXCEPT
                  ![k] = SavedFile(cache_files[k], ServedPayload, now, outcome)]
        /\ fetch_state' = [fetch_state EXCEPT ![k] = "returned"]
        /\ fetch_value' = [fetch_value EXCEPT ![k] = ServedPayload]
        /\ fetch_net' = [fetch_net EXCEPT ![k] = "ok"]
        /\ UNCHANGED <<max_retries, now, attrs, load_pc, indexes, notLoad>>

\* fetch(key, url), lines 116-123: the cache misses and every attempt of
\* _get fails: _get raises (line 77) and nothing in fetch catches it.
FetchRaises ==
    \E k \in FetchRunning :
        /\ LoadCache(cache_files, k, now) = None
        /\ GetForFetch(max_retries, "fails") = "raised"
        /\ fetch_state' = [fetch_state EXCEPT ![k] = "raised"]
        /\ fetch_net' = [fetch_net EXCEPT ![k] = "fails"]
        /\ UNCHANGED <<max_retries, now, cache_files, fetch_value, attrs, load_pc,
                       indexes, notLoad>>

\* fetch(key, url), lines 116-126: the cache misses and _get returns None
\* (max_retries is not positive): the fall-back value is returned.
FetchNoResponse ==
    \E k \in FetchRunning :
        /\ LoadCache(cache_files, k, now) = None
        /\ GetForFetch(max_retries, "ok") = "none"
        /\ fetch_state' = [fetch_state EXCEPT ![k] = "returned"]
        /\ fetch_value' = [fetch_value EXCEPT
                              ![k] = FetchFallback(LoadCache(cache_files, k, now))]
        /\ UNCHANGED <<max_retries, now, cache_files, fetch_net, attrs, load_pc,
                       indexes, notLoad>>

\* line 138: the value setattr stores is the future's result.
CollectedValueMutant(result) == JsonObject
CollectedValue(result) == result

\* lines 136-138: as_completed yields a future that returned; its value is
\* stored.
LoadCollect ==
    \E k \in AllKeys :
        /\ load_pc = "collect"
        /\ fetch_state[k] = "returned"
        /\ attrs[k] = NoResult
        /\ attrs' = [attrs EXCEPT ![k] = CollectedValue(fetch_value[k])]
        /\ UNCHANGED <<max_retries, now, cache_files, fetch_state, fetch_value,
                       fetch_net, load_pc, indexes, notLoad>>

\* lines 136-138: as_completed yields a future that raised; future.result()
\* raises again and the `with` block is left, which joins the pool.
LoadCollectRaised ==
    \E k \in AllKeys :
        /\ load_pc = "collect"
        /\ fetch_state[k] = "raised"
        /\ load_pc' = "join"
        /\ UNCHANGED <<max_retries, now, cache_files, fetch_state, fetch_value,
                       fetch_net, attrs, indexes, notLoad>>

\* line 132 (leaving the block with the exception): once every fetch has
\* ended the exception leaves _download_data and the constructor; main.py
\* catches KeyboardInterrupt only, so the process ends.
LoadAbort ==
    /\ load_pc = "join"
    /\ FetchRunning = {} /\ FetchQueued = {}
    /\ load_pc' = "crashed"
    /\ UNCHANGED <<max_retries, now, cache_files, fetch_state, fetch_value,
                   fetch_net, attrs, indexes, notLoad>>

\* line 139: every value is stored, _build_indexes runs.
LoadBuildIndexes ==
    /\ load_pc = "collect"
    /\ \A k \in AllKeys : attrs[k] # NoResult
    /\ indexes' = BuildIndexes(attrs)
    /\ load_pc' = "ready"
    /\ UNCHANGED <<max_retries, now, cache_files, fetch_state, fetch_value,
                   fetch_net, attrs, notLoad>>

\* lines 54 and main.py:6-8: the constructor returns once _download_data
\* has; only then does main.py have a Client to call start() on.
ClientReady ==
    /\ load_pc = "ready"
    /\ pc = "parked"
    /\ pc' = "menu"
    /\ UNCHANGED <<download_workers, save_texts, manifest_handle, manifest, files,
                   phases, character_id, card_voices_count, batch, batch_kind,
                   batch_stop, batch_return, progress, index, remaining_target,
                   card_pos, scen_pos, produced, docs_fetched, faults, crash_why,
                   notPool>>

\* C9 (the claim as stated; the code violates it): when the load of a
\* dataset missed the cache and every attempt of its fetch failed, fetch
\* returns the stale cached value if the dataset has a cache file and the
\* empty default otherwise, and the start-up goes on to build the indexes
\* (it never aborts).
C9_FetchFallsBack ==
    /\ load_pc # "crashed"
    /\ \A k \in AllKeys :
          (fetch_net[k] = "fails" /\ fetch_state[k] \notin {"queued", "running"}) =>
              /\ fetch_state[k] = "returned"
              /\ fetch_value[k] = IF cache_files[k] # NoFile
                                  THEN JsonLoad(cache_files[k].text)
                                  ELSE JsonObject

(***************************************************************************)
(* Part 4.  Client.start and the download operations                       *)
(*          (src/app/_client.py:172-525, src/main.py:4-12)                 *)
(*                                                                         *)
(* 4a. The loaded reference data and the selection of download tasks.      *)
(***************************************************************************)
\* The reference data the run works on (the attributes and indexes set by
\* _download_data): two characters.  Character 1 has solo songs, a profile,
\* two 2D identities and two cards; character 2 has no solo song, no
\* profile, no 2D identity and one card.
\* Character 1 has everything; character 2 has a card but neither a profile
\* nor 2D ids; character 3 has a profile and a 2D id, no card and no song.
CharacterIds == {1, 2, 3}

Singer(c, t) == [characterId |-> c, characterType |-> t]
\* self._music_vocals
MusicVocals ==
    << [musicId |-> 1, assetbundleName |-> "vs_a",
        characters |-> <<Singer(1, "game_character")>>],
       [musicId |-> 1, assetbundleName |-> "vs_b",
        characters |-> <<Singer(1, "game_character"), Singer(2, "game_character")>>],
       [musicId |-> 2, assetbundleName |-> "vs_c",
        characters |-> <<Singer(7, "outside_character"), Singer(1, "game_character")>>],
       [musicId |-> 3, assetbundleName |-> "vs_d",
        characters |-> <<Singer(1, "game_character")>>] >>
\* the keys of self._musics_by_id
MusicIds == {1, 2}
\* self._profiles_by_character: character id -> scenarioId
ProfileCharacters == {1, 3}
ProfileScenario(c) == IF c = 1 THEN "profile_1" ELSE IF c = 3 THEN "profile_3" ELSE "none"
\* self._character_2d_ids_by_character.get(character_id, [])
Character2dIds(c) == IF c = 1 THEN <<11, 12>> ELSE IF c = 3 THEN <<31>> ELSE <<>>
\* self._cards_by_character.get(character_id, []): assetbundleName per card
CharacterCards(c) ==
    IF c = 1 THEN <<"card_a", "card_b">> ELSE IF c = 2 THEN <<"card_c">> ELSE <<>>
\* self._scenario_ids_by_assetbundle.get(asset_bundle_name, [])
ScenarioIds(bundle) ==
    CASE bundle = "card_a" -> <<"sc_a1", "sc_a2">>
      [] bundle = "card_b" -> <<"sc_b1">>
      [] OTHER -> <<"sc_c1">>

Voice(c2d, id) == [Character2dId |-> c2d, VoiceId |-> id]
Talk(speakers, voices, body) ==
    [TalkCharacters |-> speakers, Voices |-> voices, Body |-> body]
\* asset['TalkData'] of the scenario documents the storage serves.
TalkData(scenario) ==
    CASE scenario = "profile_1" ->
            << Talk(<<11>>, <<Voice(11, "p_1")>>, <<"good", "\n", "day">>),
               Talk(<<11, 30>>, <<Voice(11, "p_2")>>, <<"both">>),
               Talk(<<12>>, <<Voice(30, "p_3"), Voice(12, "p_4")>>, <<"bye">>) >>
      [] scenario = "sc_a1" ->
            << Talk(<<11>>, <<Voice(11, "a_1"), Voice(11, "a_2")>>, <<"one", "\n">>),
               Talk(<<30>>, <<Voice(30, "a_3")>>, <<"other">>),
               Talk(<<12>>, <<Voice(12, "a_4")>>, <<"two">>) >>
      [] scenario = "sc_a2" ->
            << Talk(<<30>>, <<Voice(30, "a_5")>>, <<"other">>),
               Talk(<<>>, <<Voice(11, "a_6")>>, <<"nobody">>) >>
      [] scenario = "sc_b1" ->
            << Talk(<<12>>, <<Voice(12, "b_1")>>, <<"three">>),
               Talk(<<11>>, <<Voice(40, "b_2"), Voice(11, "b_3")>>, <<"four">>) >>
      [] scenario = "profile_3" ->
            << Talk(<<31>>, <<Voice(31, "q_1")>>, <<"six">>) >>
      [] OTHER ->
            << Talk(<<11>>, <<Voice(11, "c_1")>>, <<"five">>) >>

InSeq(x, q) == \E i \in 1..Len(q) : q[i] = x

\* str(index).zfill(width): the decimal digits, left-padded with zeros.
RECURSIVE Digits(_)
Digits(n) == IF n < 10 THEN <<n>> ELSE Digits(n \div 10) \o <<n % 10>>
ZFill(n, width) ==
    LET d == Digits(n)
    IN  IF Len(d) >= width THEN d ELSE [i \in 1..(width - Len(d)) |-> 0] \o d

\* os.path.join(save_path, f"{prefix}{str(index).zfill(width)}.wav"), with
\* save_path the directory dataset_<character_id> (lines 172-178).
FilePath(character, prefix, idx, width) ==
    [dir |-> character, prefix |-> prefix, digits |-> ZFill(idx, width)]

\* data['Body'].replace("\n", "")  (line 309)
CleanBody(body) == SelectSeq(body, LAMBDA t : t # "\n")

\* A download task as built by the selection code, with the state of its
\* future: st is "pending" (queued in the executor), "fetching" (a worker
\* is in _fetch_and_save), "saved" (the file is written, the worker is in
\* the sleep of line 230) or "done"; res is the task's return value; why is
\* a ghost naming what happened; got says as_completed has yielded it.
NewTask(url, path, text) ==
    [url |-> url, path |-> path, text |-> text,
     st |-> "pending", res |-> FALSE, why |-> "", got |-> FALSE, late |-> FALSE]

\* lines 238-248: the record is a solo song of the character.
IsSoloOfMutant(music, character) ==
    LET singers == SelectSeq(music.characters,
                             LAMBDA x : x.characterType = "game_character")
    IN  /\ \E i \in 1..Len(singers) : singers[i].characterId = character
        /\ music.musicId \in MusicIds
IsSoloOf(music, character) ==
    LET singers == SelectSeq(music.characters,
                             LAMBDA x : x.characterType = "game_character")
    IN  /\ Len(singers) = 1
        /\ \E i \in 1..Len(singers) : singers[i].characterId = character
        /\ music.musicId \in MusicIds

\* lines 235-263: the task list of download_solo_songs over the records
\* `vocals` of self._music_vocals.
RECURSIVE SoloTasksFrom(_, _, _, _, _)
SoloTasksFrom(vocals, character, i, idx, tasks) ==
    IF i > Len(vocals) THEN tasks
    ELSE IF ~IsSoloOf(vocals[i], character)
    THEN SoloTasksFrom(vocals, character, i + 1, idx, tasks)
    ELSE SoloTasksFrom(vocals, character, i + 1, idx + 1,
            Append(tasks,
                   NewTask([scenario |-> "music", voice |-> vocals[i].assetbundleName],
                           FilePath(character, "S", idx, 3), <<>>)))
SoloTasksOf(vocals, character) == SoloTasksFrom(vocals, character, 1, 1, <<>>)
SoloTasks(character) == SoloTasksOf(MusicVocals, character)

\* The parameter count of _parse_and_download_asset when it is left at its
\* default None (line 291).
CountNone == -1
\* `if count and ...` (lines 317, 319, 325): None and 0 are falsy.
Truthy(count) == count # CountNone /\ count # 0
\* lines 317-320: count and len(tasks) >= count
CapReached(count, tasks) == Truthy(count) /\ Len(tasks) >= count

\* lines 297-301: the talk entry has one speaker, one of the character's.
EntryPassesMutant(data, ids) ==
    \A i \in 1..Len(data.TalkCharacters) : InSeq(data.TalkCharacters[i], ids)
EntryPasses(data, ids) ==
    /\ Len(data.TalkCharacters) = 1
    /\ \A i \in 1..Len(data.TalkCharacters) : InSeq(data.TalkCharacters[i], ids)

\* lines 303-318: the voices of one talk entry, from the j-th on.
RECURSIVE AddVoices(_, _, _, _, _, _)
AddVoices(data, j, ids, count, ctx, tasks) ==
    IF j > Len(data.Voices) THEN tasks
    ELSE IF ~InSeq(data.Voices[j].Character2dId, ids)
    THEN AddVoices(data, j + 1, ids, count, ctx, tasks)
    ELSE LET t == NewTask([scenario |-> ctx.scenario, voice |-> data.Voices[j].VoiceId],
                          FilePath(ctx.character, ctx.prefix,
                                   ctx.index + Len(tasks), ctx.width),
                          CleanBody(data.Body))
             more == Append(tasks, t)
         IN  IF CapReached(count, more) THEN more
             ELSE AddVoices(data, j + 1, ids, count, ctx, more)

\* lines 294-320: the talk entries of an asset, from the i-th on.
RECURSIVE ParseFrom(_, _, _, _, _, _)
ParseFrom(talk, i, ids, count, ctx, tasks) ==
    IF i > Len(talk) THEN tasks
    ELSE IF ~EntryPasses(talk[i], ids)
    THEN ParseFrom(talk, i + 1, ids, count, ctx, tasks)
    ELSE LET more == AddVoices(talk[i], 1, ids, count, ctx, tasks)
         IN  IF CapReached(count, more) THEN more
             ELSE ParseFrom(talk, i + 1, ids, count, ctx, more)

\* lines 294-326: the task list _parse_and_download_asset builds; ctx holds
\* scenario_id, the character (save_path), prefix, file_name_len and index.
ParseTasks(talk, ids, count, ctx) ==
    LET tasks == ParseFrom(talk, 1, ids, count, ctx, <<>>)
    IN  IF Truthy(count) /\ Len(tasks) > count THEN SubSeq(tasks, 1, count) ELSE tasks

(***************************************************************************)
(* 4b. Client.start, the operations and the worker pool.                   *)
(***************************************************************************)
\* The environment injects at most this many failures (a request that is
\* not answered with the asset, a file that cannot be written) in one
\* start() call.
MaxFaults == 2

\* download_workers as configured: 0 stands for a missing (None) or
\* non-positive value; 2 is fewer workers than the larger batches have
\* tasks.
WorkerConfigs == {0, 2}
\* The answers to "card max voices count" explored (line 495): no cap
\* room at all, a cap met inside a document, at the end of a document, in
\* a later card, and a cap above everything the cards hold.
CapChoices == {0, 2, 3, 4, 6}

\* line 41: download_workers if download_workers and download_workers > 0 else 1
DownloadWorkersMutant(cfg) == IF cfg > 0 THEN cfg + 1 ELSE 1
DownloadWorkers(cfg) == IF cfg > 0 THEN cfg ELSE 1

Closed == [open |-> FALSE]
OpenIn(dir) == [open |-> TRUE, dir |-> dir]
Returned(v) == [value |-> v]

\* lines 180-184 and 199-202: the manifest line of a task.  The format
\* r"{path}|{text}" is a sequence of place-holders and literals, each
\* place-holder replaced by its item, and "\n" is appended.
ManifestFormat == <<[hole |-> "path"], [lit |-> "|"], [hole |-> "text"]>>
ReplaceHole(result, key, item) ==
    [i \in 1..Len(result) |->
        IF result[i] = [hole |-> key] THEN [item |-> item] ELSE result[i]]
SerializeManifestFormat(path, text) ==
    ReplaceHole(ReplaceHole(ManifestFormat, "path", path), "text", text)
ManifestLine(path, text) ==
    SerializeManifestFormat(path, text) \o <<[lit |-> "\n"]>>

\* lines 493-520: the operations each mode runs, and what it asks for;
\* mode 0 is download_all (lines 461-464), mode 1 download_pure_voices
\* (lines 466-468).
ModePhasesMutant(mode) ==
    CASE mode = 0 -> <<"profile", "solo", "cards">>
      [] mode = 1 -> <<"profile", "cards">>
      [] mode = 2 -> <<"solo">>
      [] mode = 3 -> <<"profile">>
      [] OTHER -> <<"cards">>
ModePhases(mode) ==
    CASE mode = 0 -> <<"solo", "profile", "cards">>
      [] mode = 1 -> <<"profile", "cards">>
      [] mode = 2 -> <<"solo">>
      [] mode = 3 -> <<"profile">>
      [] OTHER -> <<"cards">>
AsksCount(mode) == mode \in {0, 1, 4}
AsksSaveTexts(mode) == mode \in {0, 1, 3, 4}

Executing == {i \in 1..Len(batch) : batch[i].st \in {"fetching", "saved"}}
Pending == {i \in 1..Len(batch) : batch[i].st = "pending"}
AllDone == \A i \in 1..Len(batch) : batch[i].st = "done"
TaskRefs(tasks) == [i \in 1..Len(tasks) |-> [url |-> tasks[i].url, path |-> tasks[i].path]]

PoolInit ==
    /\ download_workers \in WorkerConfigs
    /\ save_texts = TRUE
    /\ manifest_handle = Closed
    /\ manifest = [c \in CharacterIds |-> <<>>]
    /\ files = {}
    /\ pc = "menu"
    /\ phases = <<>>
    /\ character_id = 1
    /\ card_voices_count = 0
    /\ batch = <<>>
    /\ batch_kind = "none"
    /\ batch_stop = FALSE
    /\ batch_return = NoResult
    /\ progress = 0
    /\ index = 1
    /\ remaining_target = 0
    /\ card_pos = 1
    /\ scen_pos = 1
    /\ produced = <<>>
    /\ docs_fetched = <<>>
    /\ faults = 0
    /\ crash_why = ""

\* main.py:7-8 and lines 480-520: start() asks for the mode, the character,
\* and, where the mode needs them, the cap and whether to save the texts.
StartInvocation ==
    /\ pc = "menu"
    /\ \E mode \in 0..4, c \in CharacterIds, n \in CapChoices, sv \in BOOLEAN :
          /\ AsksCount(mode) \/ n = 0
          /\ AsksSaveTexts(mode) \/ sv = save_texts
          /\ phases' = ModePhases(mode)
          /\ character_id' = c
          /\ card_voices_count' = n
          /\ save_texts' = sv
    /\ pc' = "run"
    /\ manifest' = [c \in CharacterIds |-> <<>>]
    /\ files' = {}
    /\ batch' = <<>>
    /\ batch_kind' = "none"
    /\ batch_stop' = FALSE
    /\ batch_return' = NoResult
    /\ progress' = 0
    /\ index' = 1
    /\ remaining_target' = 0
    /\ card_pos' = 1
    /\ scen_pos' = 1
    /\ produced' = <<>>
    /\ docs_fetched' = <<>>
    /\ faults' = 0
    /\ UNCHANGED <<download_workers, manifest_handle, crash_why, notPool>>

\* The part of the state an operation's own steps leave alone.
runFrame == <<download_workers, save_texts, manifest_handle, manifest, files,
              character_id, card_voices_count, faults, notPool>>
\* line 265: if not tasks: return
NoTasksMutant(tasks) == FALSE
NoTasks(tasks) == tasks = <<>>

\* lines 232-266: download_solo_songs finds no solo song and returns.
SoloNothing ==
    /\ pc = "run" /\ phases # <<>> /\ Head(phases) = "solo"
    /\ NoTasks(SoloTasks(character_id))
    /\ phases' = Tail(phases)
    /\ produced' = <<>>
    /\ UNCHANGED <<pc, batch, batch_kind, batch_stop, batch_return, progress, index,
                   remaining_target, card_pos, scen_pos, docs_fetched, crash_why,
                   runFrame>>

\* lines 232-269: download_solo_songs builds its tasks and submits them.
SoloSubmit ==
    /\ pc = "run" /\ phases # <<>> /\ Head(phases) = "solo"
    /\ ~NoTasks(SoloTasks(character_id))
    /\ batch' = SoloTasks(character_id)
    /\ batch_kind' = "S"
    /\ batch_stop' = FALSE
    /\ batch_return' = NoResult
    /\ progress' = 0
    /\ produced' = TaskRefs(SoloTasks(character_id))
    /\ pc' = "collect"
    /\ UNCHANGED <<phases, index, remaining_target, card_pos, scen_pos, docs_fetched,
                   crash_why, runFrame>>

\* lines 366-373: no profile for the character: a warning, and return.
ProfileMissing ==
    /\ pc = "run" /\ phases # <<>> /\ Head(phases) = "profile"
    /\ character_id \notin ProfileCharacters
    /\ phases' = Tail(phases)
    /\ produced' = <<>>
    /\ UNCHANGED <<pc, batch, batch_kind, batch_stop, batch_return, progress, index,
                   remaining_target, card_pos, scen_pos, docs_fetched, crash_why,
                   runFrame>>

\* The context of one _parse_and_download_asset call.
CtxMutant(scenario, prefix, width, idx) ==
    [scenario |-> scenario, character |-> character_id, prefix |-> prefix,
     width |-> width, index |-> 1]
Ctx(scenario, prefix, width, idx) ==
    [scenario |-> scenario, character |-> character_id, prefix |-> prefix,
     width |-> width, index |-> idx]

\* lines 375-395 and 294-339: the profile document is fetched and parsed;
\* without tasks the call returns, else the tasks are submitted.
ProfileFetched ==
    /\ pc = "run" /\ phases # <<>> /\ Head(phases) = "profile"
    /\ character_id \in ProfileCharacters
    /\ LET scenario == ProfileScenario(character_id)
           tasks == ParseTasks(TalkData(scenario), Character2dIds(character_id),
                               CountNone, Ctx(scenario, "P", 3, 1))
       IN  /\ docs_fetched' = Append(docs_fetched, [scenario |-> scenario, before |-> 0])
           /\ produced' = TaskRefs(tasks)
           /\ index' = 1
           /\ batch_stop' = FALSE
           /\ progress' = 0
           /\ IF tasks = <<>>
              THEN /\ phases' = Tail(phases)
                   /\ batch_return' = Returned(1)
                   /\ UNCHANGED <<pc, batch, batch_kind>>
              ELSE /\ batch' = tasks
                   /\ batch_kind' = "P"
                   /\ batch_return' = NoResult
                   /\ pc' = "collect"
                   /\ UNCHANGED phases
    /\ UNCHANGED <<remaining_target, card_pos, scen_pos, crash_why, runFrame>>

\* lines 382-384: the request of the profile document fails for good
\* (_get raises after the last attempt), or is answered with an empty body
\* or a not-found page (.json() raises).  Nothing catches the exception:
\* it leaves start() and main.py, which catches KeyboardInterrupt only.
ProfileFetchCrashes ==
    /\ pc = "run" /\ phases # <<>> /\ Head(phases) = "profile"
    /\ character_id \in ProfileCharacters
    /\ faults < MaxFaults
    /\ faults' = faults + 1
    /\ \E why \in {"doc_connect", "doc_absent"} : crash_why' = why
    /\ docs_fetched' = Append(docs_fetched,
                              [scenario |-> ProfileScenario(character_id), before |-> 0])
    /\ pc' = "crashed"
    /\ UNCHANGED <<download_workers, save_texts, manifest_handle, manifest, files,
                   character_id, card_voices_count, phases, batch, batch_kind,
                   batch_stop, batch_return, progress, index, remaining_target,
                   card_pos, scen_pos, produced, notPool>>

\* lines 397-417: download_character_cards_voices sets up its loop.
CardsBegin ==
    /\ pc = "run" /\ phases # <<>> /\ Head(phases) = "cards"
    /\ index' = 1
    /\ remaining_target' = card_voices_count
    /\ card_pos' = 1
    /\ scen_pos' = 1
    /\ progress' = 0
    /\ produced' = <<>>
    /\ batch' = <<>>
    /\ batch_kind' = "none"
    /\ batch_stop' = FALSE
    /\ batch_return' = NoResult
    /\ pc' = "cards_loop"
    /\ UNCHANGED <<phases, docs_fetched, crash_why, runFrame>>

\* lines 418-425: where the two nested loops stand: the next card at or
\* after position ci that has a scenario at position si (1 for a later
\* card); ci is past the end when there is none.
RECURSIVE LoopPosition(_, _, _)
LoopPosition(cards, ci, si) ==
    IF ci > Len(cards) THEN [card |-> ci, scen |-> 1]
    ELSE IF si > Len(ScenarioIds(cards[ci])) THEN LoopPosition(cards, ci + 1, 1)
    ELSE [card |-> ci, scen |-> si]
AtPosition == LoopPosition(CharacterCards(character_id), card_pos, scen_pos)
CardsLeft == AtPosition.card <= Len(CharacterCards(character_id))
ScenarioAt(pos) == ScenarioIds(CharacterCards(character_id)[pos.card])[pos.scen]

\* lines 418-427: the loops run out of cards, or the `remaining_target <= 0`
\* test at their head breaks them: the operation returns.
CardsLoopEnds ==
    /\ pc = "cards_loop"
    /\ ~CardsLeft \/ remaining_target <= 0
    /\ phases' = Tail(phases)
    /\ pc' = "run"
    /\ UNCHANGED <<batch, batch_kind, batch_stop, batch_return, progress, index,
                   remaining_target, card_pos, scen_pos, produced, docs_fetched,
                   crash_why, runFrame>>

\* lines 425-445 and 294-339: the next scenario document is fetched and
\* parsed with count = remaining_target; without tasks the call returns
\* index and the loop goes on, else the tasks are submitted.
CardsFetched ==
    /\ pc = "cards_loop"
    /\ CardsLeft /\ remaining_target > 0
    /\ LET pos == AtPosition
           scenario == ScenarioAt(pos)
           tasks == ParseTasks(TalkData(scenario), Character2dIds(character_id),
                               remaining_target, Ctx(scenario, "C", 4, index))
       IN  /\ docs_fetched' = Append(docs_fetched,
                                     [scenario |-> scenario, before |-> Len(produced)])
           /\ produced' = produced \o TaskRefs(tasks)
           /\ card_pos' = pos.card
           /\ IF tasks = <<>>
              THEN /\ batch_return' = Returned(index)
                   /\ scen_pos' = pos.scen + 1
                   /\ UNCHANGED <<pc, batch, batch_kind, batch_stop>>
              ELSE /\ batch' = tasks
                   /\ batch_kind' = "C"
                   /\ batch_stop' = FALSE
                   /\ batch_return' = NoResult
                   /\ scen_pos' = pos.scen
                   /\ pc' = "collect"
    /\ UNCHANGED <<phases, progress, index, remaining_target, crash_why, runFrame>>

\* lines 429-432: the request of a card scenario document fails for good,
\* or is answered with an empty body or a not-found page (.json() raises);
\* the exception ends the process as for the profile document.
CardsFetchCrashes ==
    /\ pc = "cards_loop"
    /\ CardsLeft /\ remaining_target > 0
    /\ faults < MaxFaults
    /\ faults' = faults + 1
    /\ \E why \in {"doc_connect", "doc_absent"} : crash_why' = why
    /\ docs_fetched' = Append(docs_fetched,
                              [scenario |-> ScenarioAt(AtPosition), before |-> Len(produced)])
    /\ pc' = "crashed"
    /\ UNCHANGED <<download_workers, save_texts, manifest_handle, manifest, files,
                   character_id, card_voices_count, phases, batch, batch_kind,
                   batch_stop, batch_return, progress, index, remaining_target,
                   card_pos, scen_pos, produced, notPool>>

\* What the result loop's steps leave alone.
collectFrame == <<phases, batch_kind, batch_return, index, remaining_target, card_pos,
                  scen_pos, produced, docs_fetched, crash_why, runFrame>>

\* lines 270-279 and 341-345: as_completed yields a finished task whose
\* result is True; the bar advances; after the last one the loop ends.
CollectOk ==
    \E i \in 1..Len(batch) :
        /\ pc = "collect"
        /\ batch[i].st = "done" /\ batch[i].res /\ ~batch[i].got
        /\ batch' = [batch EXCEPT ![i].got = TRUE]
        /\ progress' = progress + 1
        /\ pc' = IF \A j \in 1..Len(batch) : j # i => batch[j].got
                 THEN "join" ELSE "collect"
        /\ UNCHANGED <<batch_stop, collectFrame>>

\* lines 278-279 and 342-343: as_completed yields a finished task whose
\* result is False: the loop is left by `return`, inside the `with` block.
CollectFailed ==
    \E i \in 1..Len(batch) :
        /\ pc = "collect"
        /\ batch[i].st = "done" /\ ~batch[i].res /\ ~batch[i].got
        /\ batch' = [batch EXCEPT ![i].got = TRUE]
        /\ batch_stop' = TRUE
        /\ pc' = "join"
        /\ UNCHANGED <<progress, collectFrame>>

\* Leaving `with ThreadPoolExecutor(...)` (lines 268, 329) calls
\* shutdown(wait=True): the main thread goes on only when every submitted
\* task has ended.
JoinedMutant == TRUE
Joined == AllDone

\* lines 268-279: download_solo_songs returns (None on either path).
JoinSolo ==
    /\ pc = "join" /\ batch_kind = "S"
    /\ Joined
    /\ batch_return' = None
    /\ phases' = Tail(phases)
    /\ pc' = "run"
    /\ UNCHANGED <<batch, batch_kind, batch_stop, progress, index, remaining_target,
                   card_pos, scen_pos, produced, docs_fetched, crash_why, runFrame>>

\* lines 341-346: the value _run_download returns.
BatchResultMutant == index + Len(batch)
BatchResult == IF batch_stop THEN -1 ELSE index + Len(batch)

\* lines 329-362 and 386-395: _parse_and_download_asset returns to
\* download_character_profile_voices, which ignores the value and returns.
JoinProfile ==
    /\ pc = "join" /\ batch_kind = "P"
    /\ Joined
    /\ batch_return' = Returned(BatchResult)
    /\ phases' = Tail(phases)
    /\ pc' = "run"
    /\ UNCHANGED <<batch, batch_kind, batch_stop, progress, index, remaining_target,
                   card_pos, scen_pos, produced, docs_fetched, crash_why, runFrame>>

\* lines 451-452: processed = index_return - index; remaining_target -= processed
RemainingAfterMutant(remaining, index_return, idx) == remaining
RemainingAfter(remaining, index_return, idx) == remaining - (index_return - idx)

\* lines 329-362 and 434-459: _parse_and_download_asset returns to
\* download_character_cards_voices: -1 ends the operation; else the target
\* is reduced, and the operation ends when it is used up or goes on with
\* the next scenario.
JoinCards ==
    /\ pc = "join" /\ batch_kind = "C"
    /\ Joined
    /\ batch_return' = Returned(BatchResult)
    /\ IF BatchResult = -1
       THEN /\ phases' = Tail(phases)
            /\ pc' = "run"
            /\ UNCHANGED <<index, remaining_target, scen_pos, progress>>
       ELSE /\ remaining_target' = RemainingAfter(remaining_target, BatchResult, index)
            /\ index' = BatchResult
            /\ IF RemainingAfter(remaining_target, BatchResult, index) <= 0
               THEN /\ progress' = card_voices_count
                    /\ phases' = Tail(phases)
                    /\ pc' = "run"
                    /\ UNCHANGED scen_pos
               ELSE /\ scen_pos' = scen_pos + 1
                    /\ pc' = "cards_loop"
                    /\ UNCHANGED <<phases, progress>>
    /\ UNCHANGED <<batch, batch_kind, batch_stop, card_pos, produced, docs_fetched,
                   crash_why, runFrame>>

\* lines 522-524: the handle start() leaves behind: closed if it was open,
\* None in either case.
HandleAfterStartMutant == manifest_handle
HandleAfterStart == Closed

\* lines 522-525: the operations of the mode are over; start() closes the
\* manifest if it is open and returns to main.py's loop.  The locals of the
\* ended call are gone, and the record of what it put on disk is dropped
\* here: no operation reads the dataset folder or the manifest back.
Finish ==
    /\ pc = "run" /\ phases = <<>>
    /\ manifest_handle' = HandleAfterStart
    /\ pc' = "menu"
    /\ manifest' = [c \in CharacterIds |-> <<>>]
    /\ files' = {}
    /\ batch' = <<>>
    /\ batch_kind' = "none"
    /\ batch_stop' = FALSE
    /\ batch_return' = NoResult
    /\ progress' = 0
    /\ index' = 1
    /\ remaining_target' = 0
    /\ card_pos' = 1
    /\ scen_pos' = 1
    /\ produced' = <<>>
    /\ docs_fetched' = <<>>
    /\ faults' = 0
    /\ UNCHANGED <<download_workers, save_texts, phases, character_id,
                   card_voices_count, crash_why, notPool>>

\* What a worker's steps leave alone.
taskFrame == <<download_workers, save_texts, pc, phases, character_id,
               card_voices_count, batch_kind, batch_stop, batch_return, progress,
               index, remaining_target, card_pos, scen_pos, produced, docs_fetched,
               crash_why, notPool>>
PoolLive == pc \in {"collect", "join", "unwind_join"}

\* A worker thread takes the next task: the executor's queue is first in,
\* first out, and it has at most max_workers threads (lines 268, 329).
TaskStart ==
    \E i \in Pending :
        /\ PoolLive
        /\ \A j \in Pending : i <= j
        /\ Cardinality(Executing) < DownloadWorkers(download_workers)
        /\ batch' = [batch EXCEPT ![i].st = "fetching"]
        /\ UNCHANGED <<manifest_handle, manifest, files, faults, taskFrame>>

\* _fetch_and_save, lines 209-224: the request is answered with a body,
\* under status 200 or under 404 (`not response` is false for every
\* response object, only the body is looked at); the body is written to
\* the destination file.
TaskFetchOk ==
    \E i \in 1..Len(batch), status \in StatusCodes :
        /\ PoolLive
        /\ batch[i].st = "fetching"
        /\ status = 200 \/ faults < MaxFaults
        /\ faults' = IF status = 200 THEN faults ELSE faults + 1
        /\ files' = {f \in files : f.path # batch[i].path} \cup
                      {[path |-> batch[i].path,
                        content |-> IF status = 200 THEN "audio" ELSE "error_page"]}
        /\ batch' = [batch EXCEPT ![i].st = "saved",
                                  ![i].why = IF status = 200 THEN "ok" ELSE "error_page"]
        /\ UNCHANGED <<manifest_handle, manifest, taskFrame>>

\* A failed task ends with the result False (after the sleep of line 230).
Failed(task, why) ==
    [task EXCEPT !.st = "done", !.res = FALSE, !.why = why, !.late = batch_stop]

\* _fetch_and_save, lines 216-219: the body is empty: return False.
TaskFetchEmpty ==
    \E i \in 1..Len(batch) :
        /\ PoolLive
        /\ batch[i].st = "fetching"
        /\ faults < MaxFaults
        /\ faults' = faults + 1
        /\ batch' = [batch EXCEPT ![i] = Failed(batch[i], "empty")]
        /\ UNCHANGED <<manifest_handle, manifest, files, taskFrame>>

\* What _fetch_and_save does with an exception of its try block (lines
\* 225-227): it is logged and the task returns False.
OnTaskExceptionMutant(task, why) ==
    [task EXCEPT !.st = "done", !.res = TRUE, !.why = why, !.late = batch_stop]
OnTaskException(task, why) == Failed(task, why)

\* _fetch_and_save, lines 211 and 225-227: _get raises after its last
\* attempt.
TaskFetchRaises ==
    \E i \in 1..Len(batch) :
        /\ PoolLive
        /\ batch[i].st = "fetching"
        /\ faults < MaxFaults
        /\ faults' = faults + 1
        /\ batch' = [batch EXCEPT ![i] = OnTaskException(batch[i], "connect")]
        /\ UNCHANGED <<manifest_handle, manifest, files, taskFrame>>

\* _fetch_and_save, lines 221-227: the body arrived but the destination
\* file cannot be opened or written; nothing complete is on disk.
TaskWriteFails ==
    \E i \in 1..Len(batch) :
        /\ PoolLive
        /\ batch[i].st = "fetching"
        /\ faults < MaxFaults
        /\ faults' = faults + 1
        /\ batch' = [batch EXCEPT ![i] = OnTaskException(batch[i], "disk")]
        /\ UNCHANGED <<manifest_handle, manifest, files, taskFrame>>

\* _write_manifest_line, lines 186-204, under self._manifest_lock: nothing
\* when the texts are not saved; else the manifest of save_path is opened
\* if no manifest is open, and the line goes to the open manifest.
HandleAfterWrite(save_path) ==
    IF ~save_texts THEN manifest_handle
    ELSE IF manifest_handle = Closed THEN OpenIn(save_path) ELSE manifest_handle
ManifestAfterWriteMutant(save_path, path, text) ==
    IF ~save_texts THEN manifest
    ELSE [manifest EXCEPT ![HandleAfterWrite(save_path).dir] =
              Append(Append(@, ManifestLine(path, text)), ManifestLine(path, text))]
ManifestAfterWrite(save_path, path, text) ==
    IF ~save_texts THEN manifest
    ELSE [manifest EXCEPT ![HandleAfterWrite(save_path).dir] =
              Append(@, ManifestLine(path, text))]

\* lines 221-224 and 474-475: success, the value _fetch_and_save returns:
\* True only past the `with open(file_path, "wb")` block, when the body
\* has been written and the file closed.
SuccessMutant(task) == task.st \in {"fetching", "saved"}
Success(task) == task.st = "saved"

\* The end of a successful task.  A solo task (lines 224-230) returns True
\* after its sleep; a voice task (_download_voice_with_manifest, lines
\* 473-477) writes its manifest line and returns True.
TaskFinish ==
    \E i \in 1..Len(batch) :
        /\ PoolLive
        /\ Success(batch[i])
        /\ batch' = [batch EXCEPT ![i].st = "done", ![i].res = TRUE,
                                  ![i].late = batch_stop]
        /\ IF batch_kind = "S"
           THEN UNCHANGED <<manifest_handle, manifest>>
           ELSE /\ manifest_handle' = HandleAfterWrite(character_id)
                /\ manifest' = ManifestAfterWrite(character_id, batch[i].path,
                                                  batch[i].text)
        /\ UNCHANGED <<files, faults, taskFrame>>


(***************************************************************************)
(* 4c. The terminal interrupt (src/main.py:4-12).                          *)
(***************************************************************************)
\* What the steps of the interrupted main thread leave alone.
unwindFrame == <<download_workers, save_texts, manifest_handle, manifest, files, phases,
                 character_id, card_voices_count, batch, batch_kind, batch_stop,
                 batch_return, progress, index, remaining_target, card_pos, scen_pos,
                 produced, docs_fetched, faults, calls, selVars, getVars, cacheVars,
                 loadVars>>

\* KeyboardInterrupt is raised in the main thread: at the prompts, between
\* two steps of an operation, or while the result loop waits for a task
\* (lines 270-279, 341-345).  Raised inside `with ThreadPoolExecutor`, it
\* first runs the executor's exit.  An interrupt that arrives while that
\* exit is already waiting is not explored.
Interrupt ==
    /\ pc \in {"menu", "run", "cards_loop", "collect"}
    /\ pc' = IF pc = "collect" THEN "unwind_join" ELSE "unwind"
    /\ crash_why' = "interrupt"
    /\ UNCHANGED <<transport, unwindFrame>>

\* The executor's exit (shutdown(wait=True)) has seen every task end; the
\* exception goes on through start(), whose lines 522-525 are not reached.
UnwindJoin ==
    /\ pc = "unwind_join"
    /\ AllDone
    /\ pc' = "unwind"
    /\ UNCHANGED <<transport, crash_why, unwindFrame>>

\* main.py:6 and lines 56-63: the exception leaves `with Client(...)`, whose
\* __exit__ calls close(), which closes self._client and nothing else;
\* main.py:10-12 then logs and calls exit(0).
ClientExit ==
    /\ pc = "unwind"
    /\ transport' = "closed"
    /\ pc' = "exited"
    /\ UNCHANGED <<crash_why, unwindFrame>>

(***************************************************************************)
(* 4d. The download operations called directly on a Client, without        *)
(* start(): they are public methods of the class.                          *)
(***************************************************************************)
\* The number of direct calls explored.
MaxCalls == 2
\* The cap given to a direct card-voice call.
DirectCap == 2
\* The operations called directly, and what each runs (lines 366, 397).
DirectPhases(op) ==
    IF op = "download_character_profile_voices" THEN <<"profile">> ELSE <<"cards">>
DirectOperations ==
    {"download_character_profile_voices", "download_character_cards_voices"}

\* The locals of an operation before it runs; the record of the files
\* written starts again with each call.
FreshLocals ==
    /\ files' = {}
    /\ batch' = <<>>
    /\ batch_kind' = "none"
    /\ batch_stop' = FALSE
    /\ batch_return' = NoResult
    /\ progress' = 0
    /\ index' = 1
    /\ remaining_target' = 0
    /\ card_pos' = 1
    /\ scen_pos' = 1
    /\ produced' = <<>>
    /\ docs_fetched' = <<>>

\* The caller invokes one of the operations for a character.  _save_texts
\* is still the True of line 37 and nothing resets the manifest handle.
DirectCall ==
    /\ pc = "menu"
    /\ calls < MaxCalls
    /\ calls' = calls + 1
    /\ \E op \in DirectOperations, c \in CharacterIds :
          /\ phases' = DirectPhases(op)
          /\ character_id' = c
    /\ card_voices_count' = DirectCap
    /\ FreshLocals
    /\ pc' = "run"
    /\ UNCHANGED <<download_workers, save_texts, manifest_handle, manifest,
                   faults, crash_why, transport, selVars, getVars, cacheVars, loadVars>>

\* The operation returns to the caller; lines 522-525 belong to start() and
\* are not run.
DirectReturn ==
    /\ pc = "run" /\ phases = <<>>
    /\ FreshLocals
    /\ pc' = "menu"
    /\ UNCHANGED <<download_workers, save_texts, manifest_handle, manifest,
                   phases, character_id, card_voices_count, faults, crash_why,
                   notPool>>

(***************************************************************************)
(* 4e. The task selection code taken alone, over every small input.        *)
(***************************************************************************)
\* The longest self._music_vocals list and the longest TalkData list tried.
MaxVocals == 2
MaxTalks == 2

\* The singer lists a music-vocal record is given: none, one or two game
\* characters, an outside singer of the same id, a game character next to
\* an outside singer.
SingerLists ==
    { <<>>,
      <<Singer(1, "game_character")>>,
      <<Singer(2, "game_character")>>,
      <<Singer(1, "outside_character")>>,
      <<Singer(1, "game_character"), Singer(2, "game_character")>>,
      <<Singer(1, "game_character"), Singer(1, "game_character")>>,
      <<Singer(7, "outside_character"), Singer(1, "game_character")>> }
\* musicId 3 is not among the keys of _musics_by_id.
VocalShapes == [characters : SingerLists, musicId : {1, 3}]
\* The records of a list get their position as assetbundleName.
VocalLists ==
    UNION { { [i \in 1..n |-> [musicId |-> q[i].musicId, assetbundleName |-> i,
                               characters |-> q[i].characters]] :
              q \in [1..n -> VocalShapes] } : n \in 0..MaxVocals }

\* The talk entries tried: speakers and voices over the 2D ids 11, 12 (the
\* character's) and 30 (someone else's).
SpeakerLists == { <<>>, <<11>>, <<30>>, <<11, 30>>, <<11, 12>> }
VoiceIdLists == { <<>>, <<11>>, <<30>>, <<11, 30>>, <<30, 12>> }
TalkShapes == [speakers : SpeakerLists, voices : VoiceIdLists]
\* A voice gets the position of its entry and its own as VoiceId.
TalkLists ==
    UNION { { [i \in 1..n |->
                 Talk(q[i].speakers,
                      [j \in 1..Len(q[i].voices) |-> Voice(q[i].voices[j], <<i, j>>)],
                      <<"text", "\n">>)] :
              q \in [1..n -> TalkShapes] } : n \in 0..MaxTalks }
IdSets == { <<>>, <<11>>, <<11, 12>> }
CountArgs == {CountNone, 0, 1, 2}

SoloInputs == [kind : {"solo"}, vocals : VocalLists, character : {1, 2}]
AssetInputs ==
    [kind : {"asset"}, talk : TalkLists, ids : IdSets, count : CountArgs,
     index : {1, 8}]

SelInit ==
    /\ sel_in \in SoloInputs \cup AssetInputs
    /\ sel_out = NoResult

\* lines 235-263 on the input.
SelectSolo ==
    /\ sel_in.kind = "solo"
    /\ sel_out = NoResult
    /\ sel_out' = Returned(SoloTasksOf(sel_in.vocals, sel_in.character))
    /\ UNCHANGED <<sel_in, getVars, cacheVars, loadVars, poolVars, procVars>>

\* lines 294-326 on the input.
SelectVoices ==
    /\ sel_in.kind = "asset"
    /\ sel_out = NoResult
    /\ sel_out' = Returned(ParseTasks(sel_in.talk, sel_in.ids, sel_in.count,
                                      [scenario |-> "doc", character |-> 1,
                                       prefix |-> "C", width |-> 4,
                                       index |-> sel_in.index]))
    /\ UNCHANGED <<sel_in, getVars, cacheVars, loadVars, poolVars, procVars>>

(***************************************************************************)
(* Properties of the download run.                                         *)
(***************************************************************************)
\* The worker count the configuration stands for: the configured value, 1
\* when it is missing or not positive.
ConfiguredWorkers == IF download_workers > 0 THEN download_workers ELSE 1

\* C2: in every state of every download operation, the number of tasks
\* executing at the same time is at most the configured worker count W
\* (1 when the configured value is missing or not positive), however many
\* tasks are pending.
C2_ConcurrencyBound == Cardinality(Executing) <= ConfiguredWorkers
\* Two workers are both busy while another task of the batch still waits.
C2_Witness ==
    /\ download_workers = 2
    /\ Cardinality(Executing) = 2
    /\ Pending # {}

\* The eligible card voice entries of a character in enumeration order
\* (cards in index order, scenarios in order within a card, talk entries
\* and voices in document order), numbered from 1, with no cap.
RECURSIVE EligibleFrom(_, _, _, _)
EligibleFrom(c, ci, si, acc) ==
    LET pos == LoopPosition(CharacterCards(c), ci, si)
    IN  IF pos.card > Len(CharacterCards(c)) THEN acc
        ELSE LET scenario == ScenarioIds(CharacterCards(c)[pos.card])[pos.scen]
                 found == ParseTasks(TalkData(scenario), Character2dIds(c), CountNone,
                                     [scenario |-> scenario, character |-> c,
                                      prefix |-> "C", width |-> 4,
                                      index |-> 1 + Len(acc)])
             IN  EligibleFrom(c, pos.card, pos.scen + 1, acc \o TaskRefs(found))
CardEligible(c) == EligibleFrom(c, 1, 1, <<>>)
\* download_character_cards_voices has returned without a failed download.
CardsReturnedClean ==
    /\ pc = "run" /\ phases = <<>>
    /\ batch_kind = "C" /\ ~batch_stop

\* C3: when download_character_cards_voices runs with a cap N >= 1, the
\* character's cards hold more than N eligible voice entries and no
\* download fails, then exactly N tasks are produced over the invocation,
\* they are the first N eligible entries in enumeration order, and no
\* scenario document is fetched after the N-th task has been produced.
C3_CardVoiceCap ==
    (/\ CardsReturnedClean
     /\ card_voices_count >= 1
     /\ Len(CardEligible(character_id)) > card_voices_count)
    => /\ produced = SubSeq(CardEligible(character_id), 1, card_voices_count)
       /\ \A k \in 1..Len(docs_fetched) : docs_fetched[k].before < card_voices_count
\* The cap of 4 is met in the second card: three documents were fetched,
\* and the fifth eligible entry was left out.
C3_Witness ==
    /\ CardsReturnedClean
    /\ card_voices_count = 4
    /\ Len(CardEligible(character_id)) = 5
    /\ Len(produced) = 4
    /\ Len(docs_fetched) = 3

\* The manifest line the specification describes for a task: the
\* destination path, '|', the transcript, a newline.
ExpectedLine(task) ==
    <<[item |-> task.path], [lit |-> "|"], [item |-> task.text], [lit |-> "\n"]>>
LinesOf(dir, path) ==
    {k \in 1..Len(manifest[dir]) : manifest[dir][k][1] = [item |-> path]}

Excepted == {i \in 1..Len(batch) : batch[i].why \in {"connect", "disk"}}
\* The batch call has returned to its caller.
BatchReturned == batch_return # NoResult /\ batch # <<>>

C6_ReturnsWithoutJoin == ~(pc = "join" /\ batch_stop /\ ~AllDone)

\* C6 as the code has it: the batch call returns only when every task of
\* the batch has ended; the tasks still queued or running when the failure
\* is observed run to their end, files and manifest lines included, before
\* the call returns.
C6_JoinBeforeReturn == pc \notin {"collect", "join"} => AllDone
\* The call has returned after a failure, and a task of the batch finished
\* with success after that failure had been observed.
C6_Witness ==
    /\ pc = "run"
    /\ batch_stop
    /\ \E i \in 1..Len(batch) : batch[i].late /\ batch[i].res

\* C7 as stated, first part: a batch in which a failed task was observed
\* reports a failure outcome to its caller.
C7_ReportsFailure == (batch_stop /\ BatchReturned) => batch_return = Returned(-1)

\* C7 as the code has it: once a failed task of a batch is observed, a
\* voice batch returns -1 and download_solo_songs returns None as it does
\* without a failure; no further result of the batch is collected and the
\* progress counter stays; in the card enumeration no further scenario
\* document is fetched and no further batch is submitted in the invocation.
StoppedStep ==
    /\ (batch_stop /\ batch_stop') =>
          /\ progress' = progress
          /\ Len(batch') = Len(batch)
          /\ \A i \in 1..Len(batch) : batch'[i].got = batch[i].got
    /\ (batch_stop /\ batch_kind = "C" /\ pc' # "menu") =>
          /\ docs_fetched' = docs_fetched
          /\ TaskRefs(batch') = TaskRefs(batch)
          /\ produced' = produced
C7_StopOnFailure ==
    /\ []((batch_stop /\ BatchReturned) =>
             batch_return = IF batch_kind = "S" THEN None ELSE Returned(-1))
    /\ [][StoppedStep]_vars
\* The card enumeration returned on -1 after its first document, with
\* scenarios left and a finished task whose result was never collected.
C7_Witness ==
    /\ pc = "run" /\ phases = <<>>
    /\ batch_kind = "C" /\ batch_stop
    /\ batch_return = Returned(-1)
    /\ Len(docs_fetched) = 1
    /\ \E i \in 1..Len(batch) : batch[i].res /\ ~batch[i].got

\* C8: a request answered with an empty body or a not-found status, be it
\* for a scenario document or for an audio file, ends the current operation
\* early without a fatal error, and the client then runs a new invocation.
C8_AbsentIsNonFatal == ~(pc = "crashed" /\ crash_why = "doc_absent")

\* C11: when the character's profile record or the character's 2D-identity
\* mapping is absent, the corresponding operation (profile voices, card
\* voices) returns without work: no scenario document is requested, no
\* download task is run, and the run is not aborted.
C11_AbsentDataSkips ==
    Character2dIds(character_id) = <<>>
    => /\ docs_fetched = <<>>
       /\ batch = <<>>
       /\ pc # "crashed"

\* C12: when the terminal interrupt arrives at any point of a run, also
\* while a download operation holding an open manifest handle is in
\* progress, both the manifest handle and the HTTP transport are closed
\* before the process exits.
C12_InterruptCloses ==
    pc = "exited" => manifest_handle = Closed /\ transport = "closed"

\* C13: the manifest handle is opened lazily at the first manifest write
\* of a start() call, is never closed between the tasks of that call, and
\* is closed once when the call ends, so that no handle is open when the
\* next invocation begins.  As a formula: the handle is open, in the
\* selected character's directory, exactly while the call has written a
\* manifest line; it is closed at the prompt; it changes only by the first
\* write of a call (opening) and by the end of start() (closing).
HandleStep ==
    manifest_handle' # manifest_handle =>
        \/ /\ manifest_handle = Closed
           /\ manifest_handle' = OpenIn(character_id)
           /\ manifest[character_id] = <<>>
           /\ Len(manifest'[character_id]) = 1
        \/ /\ manifest_handle' = Closed
           /\ pc = "run" /\ phases = <<>> /\ pc' = "menu"
C14_OneManifestPerDirectory ==
    \A d \in CharacterIds : \A k \in 1..Len(manifest[d]) :
        manifest[d][k][1].item.dir = d

\* The singers of type 'game_character' of a music-vocal record.
GameSingers(record) ==
    {i \in 1..Len(record.characters) :
        record.characters[i].characterType = "game_character"}

\* C15: for every list of music-vocal records and every character c,
\* download_solo_songs(c) produces a task for a record only if the record's
\* singers of type 'game_character' are exactly one singer and that singer
\* is c; a record with zero or with two or more such singers never
\* produces a task.
C15_SoloExclusivity ==
    (sel_in.kind = "solo" /\ sel_out # NoResult) =>
        \A k \in 1..Len(sel_out.value) :
            LET record == sel_in.vocals[sel_out.value[k].url.voice]
            IN  /\ Cardinality(GameSingers(record)) = 1
                /\ \A i \in GameSingers(record) :
                      record.characters[i].characterId = sel_in.character
\* An ensemble record with the character in it is passed over and the
\* record sung by the character next to an outside singer gives the task.
C15_Witness ==
    /\ sel_in.kind = "solo" /\ sel_out # NoResult
    /\ sel_in.character = 1
    /\ Len(sel_in.vocals) = 2
    /\ sel_in.vocals[1].characters =
          <<Singer(1, "game_character"), Singer(2, "game_character")>>
    /\ sel_in.vocals[2].characters =
          <<Singer(7, "outside_character"), Singer(1, "game_character")>>
    /\ Len(sel_out.value) = 1
    /\ sel_out.value[1].url.voice = 2

\* C16: for every asset document and every 2D-id set S of the selected
\* character, each emitted voice task comes from a talk entry that has
\* exactly one speaker, that speaker is in S, and the task's voice has a 2D
\* id in S; no task is emitted for a voice whose 2D id is outside S.
C16_TalkEntryFilter ==
    (sel_in.kind = "asset" /\ sel_out # NoResult) =>
        \A k \in 1..Len(sel_out.value) :
            LET ref == sel_out.value[k].url.voice
                entry == sel_in.talk[ref[1]]
            IN  /\ Len(entry.TalkCharacters) = 1
                /\ \E s \in 1..Len(sel_in.ids) : sel_in.ids[s] = entry.TalkCharacters[1]
                /\ \E s \in 1..Len(sel_in.ids) :
                      sel_in.ids[s] = entry.Voices[ref[2]].Character2dId
\* An entry spoken by the character with a foreign voice and one of the
\* character's: only the second voice gives a task.
C16_Witness ==
    /\ sel_in.kind = "asset" /\ sel_out # NoResult
    /\ sel_in.ids = <<11, 12>>
    /\ sel_in.count = CountNone
    /\ Len(sel_in.talk) = 1
    /\ sel_in.talk[1].TalkCharacters = <<11>>
    /\ Len(sel_in.talk[1].Voices) = 2
    /\ sel_in.talk[1].Voices[1].Character2dId = 30
    /\ Len(sel_out.value) = 1
    /\ sel_out.value[1].url.voice = <<1, 2>>

\* The character has no qualifying solo-song record: none whose singers of
\* type 'game_character' are exactly the character.
ZeroQualifying(c) ==
    \A i \in 1..Len(MusicVocals) :
        ~(/\ Cardinality(GameSingers(MusicVocals[i])) = 1
          /\ \A k \in GameSingers(MusicVocals[i]) :
                MusicVocals[i].characters[k].characterId = c)
\* What download_solo_songs does for such a character, as one step.
SoloStep ==
    (/\ pc = "run" /\ phases # <<>> /\ Head(phases) = "solo"
     /\ ZeroQualifying(character_id))
    => /\ produced' = <<>>
       /\ batch' = batch /\ batch_kind' = batch_kind
       /\ pc' = "run" /\ phases' = Tail(phases)
       /\ docs_fetched' = docs_fetched /\ files' = files /\ faults' = faults

\* C17: for every character with zero qualifying solo-song vocal records,
\* download_solo_songs produces an empty task list, creates no worker pool
\* and issues no network request.
C17_NoSoloNoNetwork ==
    /\ [](batch_kind = "S" => ~ZeroQualifying(character_id))
    /\ [][SoloStep]_vars
\* The solo-only mode has run for character 3, who sings nothing: the
\* operation is over with no batch, no file and no request.
C17_Witness ==
    /\ pc = "run" /\ phases = <<>>
    /\ character_id = 3 /\ ZeroQualifying(character_id)
    /\ card_voices_count = 0
    /\ produced = <<>> /\ batch = <<>> /\ batch_kind = "none"
    /\ files = {} /\ docs_fetched = <<>> /\ faults = 0

\* C18: after any call of _save_cache(name, payload), whether the write
\* succeeds or fails part-way, the cache file of the name holds the complete
\* previous payload (or is absent as before) or the complete new payload,
\* never a truncated one.
C18_AtomicSave ==
    \A key \in CacheKeysExplored :
        \/ cache_files[key] = NoFile
        \/ \E data \in Payloads : cache_files[key].text = JsonDump(data)

\* The number written in the digits of a file name.
RECURSIVE DigitsValue(_)
DigitsValue(d) ==
    IF d = <<>> THEN 0
    ELSE 10 * DigitsValue(SubSeq(d, 1, Len(d) - 1)) + d[Len(d)]
\* The tasks built so far by the running top-level call carry the numbers
\* 1, 2, 3, ... in the order they were built, under one prefix.
NumberedFromOne ==
    \A k \in 1..Len(produced) :
        /\ DigitsValue(produced[k].path.digits) = k
        /\ produced[k].path.prefix = produced[1].path.prefix
        /\ produced[k].path.dir = character_id
        /\ Len(produced[k].path.digits) = IF produced[k].path.prefix = "C" THEN 4 ELSE 3
\* A step that submits a batch submits exactly the tasks just built: after
\* those of the earlier batches in card voices, alone in the other calls.
SubmitStep ==
    (TaskRefs(batch') # TaskRefs(batch) /\ batch' # <<>>) =>
        produced' = (IF batch_kind' = "C" THEN produced ELSE <<>>) \o TaskRefs(batch')

\* C19: within one top-level call (solo songs, profile voices, card voices)
\* the produced tasks are numbered 1, 2, 3, ... consecutively in
\* enumeration order, each call starting again at 1; in card voices the
\* numbering continues across cards and scenarios, so no two tasks of an
\* invocation share a destination path and no task is enqueued twice.
C19_SequentialNumbering ==
    /\ []NumberedFromOne
    /\ [](\A j, k \in 1..Len(produced) :
             produced[j].path = produced[k].path => j = k)
    /\ [][SubmitStep]_vars
\* The card operation is in its second batch, in the second card: the one
\* task of that batch carries the number 4.
C19_Witness ==
    /\ batch_kind = "C" /\ pc = "collect"
    /\ Len(docs_fetched) = 3
    /\ Len(produced) = 4
    /\ Len(batch) = 1
    /\ batch[1].path = [dir |-> character_id, prefix |-> "C", digits |-> <<0, 0, 0, 4>>]

\* C20: at start-up never more than 8 dataset loads are in flight; the
\* indexes are built only after all 7 dataset loads have completed and
\* their results have been stored; and if any dataset load raises, the
\* indexes are not built and no download operation can run.
C20_LoadThenIndex ==
    /\ Cardinality(FetchRunning) <= 8
    /\ indexes # NoResult =>
          /\ Cardinality(AllKeys) = 7
          /\ \A k \in AllKeys : fetch_state[k] = "returned" /\ attrs[k] = fetch_value[k]
          /\ indexes = BuildIndexes(fetch_value)
    /\ (\E k \in AllKeys : fetch_state[k] = "raised") =>
          indexes = NoResult /\ pc = "parked"
    /\ pc # "parked" => indexes # NoResult
\* The Client is ready for start(): one dataset came from the network, the
\* other six from the cache, and the indexes are built.
C20_Witness ==
    /\ pc = "menu"
    /\ indexes # NoResult
    /\ Cardinality({k \in AllKeys : fetch_net[k] = "ok"}) = 1
    /\ \A k \in AllKeys : attrs[k] # NoResult

\* What one step of a start() call does to the manifest and to the
\* dataset folder (the steps at the menu start and end the record of a
\* call).  A line is appended only by a task that is past its own file
\* write, names that task's destination file, and that file is on disk;
\* a file is written only by the task whose destination it is, while that
\* task is fetching.
LineStep ==
    \A d \in CharacterIds :
        manifest'[d] # manifest[d] =>
            \E i \in 1..Len(batch) :
                /\ batch[i].st = "saved" /\ batch'[i].st = "done"
                /\ \E f \in files : f.path = batch[i].path
                /\ files' = files
                /\ manifest'[d] = Append(manifest[d], ExpectedLine(batch[i]))
FileStep ==
    files' # files =>
        \E i \in 1..Len(batch) :
            /\ batch[i].st = "fetching" /\ batch'[i].st = "saved"
            /\ \E f \in files' : f.path = batch[i].path
            /\ {f \in files' : f.path # batch[i].path} =
                   {f \in files : f.path # batch[i].path}
            /\ manifest' = manifest

\* C21: file before manifest line.  In every reachable state each line of
\* the manifest names a destination file that is on disk, written in full
\* by the task that appended the line, before the line; no line names a
\* file that was not written.
C21_FileBeforeLine ==
    /\ [](\A d \in CharacterIds : \A k \in 1..Len(manifest[d]) :
            \E f \in files : [item |-> f.path] = manifest[d][k][1])
    /\ [][(pc # "menu" /\ pc' # "menu") => (LineStep /\ FileStep)]_vars
\* A voice batch in which one task wrote its file and then its line, and
\* another could not write its file and has neither file nor line.
C21_Witness ==
    /\ batch_kind \in {"P", "C"} /\ save_texts
    /\ \E i, j \in 1..Len(batch) :
          /\ batch[i].st = "done" /\ batch[i].res
          /\ LinesOf(batch[i].path.dir, batch[i].path) # {}
          /\ \E f \in files : f.path = batch[i].path
          /\ batch[j].st = "done" /\ batch[j].why = "disk"
          /\ LinesOf(batch[j].path.dir, batch[j].path) = {}
          /\ \A f \in files : f.path # batch[j].path

\* The place of an operation in download_all, and the kind of batch it
\* submits.
PhaseRank(p) == CASE p = "solo" -> 1 [] p = "profile" -> 2 [] OTHER -> 3
PhaseKind(p) == CASE p = "solo" -> "S" [] p = "profile" -> "P" [] OTHER -> "C"
LiveTasks == {i \in 1..Len(batch) : batch[i].st # "done"}

\* One step of a start() call, seen from the sequence of operations: an
\* operation ends only when none of its tasks is live, whether or not its
\* batch was stopped, and hands over to the operation after it with no
\* exception under way; a batch is submitted only when no task is live,
\* by the operation whose turn it is.
PhaseStep ==
    /\ (pc # "menu" /\ phases' # phases) =>
          /\ phases' = Tail(phases)
          /\ LiveTasks = {}
          /\ pc' = "run" /\ crash_why' = crash_why
    /\ (pc \in {"run", "cards_loop"} /\ pc' = "collect") =>
          /\ LiveTasks = {}
          /\ batch_kind' = PhaseKind(Head(phases))
          /\ phases' = phases

\* C22: phase sequencing in download_all.  The operations of a call are
\* in the order solo songs, profile voices, card voices; while a task is
\* live the operation whose turn it is is the one that submitted it, so no
\* task of a later operation starts before every task of an earlier one
\* has ended; and whenever an operation has returned, after a stop on a
\* failed solo download or a missing profile as after a clean end, the
\* operation after it is ready to begin.
C22_PhaseSequencing ==
    /\ [](\A i, j \in 1..Len(phases) :
            i < j => PhaseRank(phases[i]) < PhaseRank(phases[j]))
    /\ [](LiveTasks # {} =>
            phases # <<>> /\ batch_kind = PhaseKind(Head(phases)))
    /\ []((pc = "run" /\ phases # <<>>) =>
            ENABLED (SoloNothing \/ SoloSubmit \/ ProfileMissing \/ ProfileFetched
                     \/ CardsBegin))
    /\ [][PhaseStep]_vars
\* download_all for character 1: one of the two solo downloads failed and
\* stopped the solo operation, the other wrote its file, and now a worker
\* is fetching a profile voice, with the card voices still to come.
C22_Witness ==
    /\ phases = <<"profile", "cards">>
    /\ batch_kind = "P"
    /\ faults = 1
    /\ \A i \in 1..Len(batch) : batch[i].st \in {"pending", "fetching"}
    /\ \E i \in 1..Len(batch) : batch[i].st = "fetching"
    /\ Cardinality({f \in files : f.path.prefix = "S"}) = 1
    /\ \A f \in files : f.content = "audio"

(***************************************************************************)
(* The specifications.  Each runs one part and leaves the variables of the *)
(* other parts at a parked value.                                          *)
(***************************************************************************)
GetParked ==
    /\ max_retries = 0
    /\ wait_time = 0
    /\ get_pc = "parked"
    /\ retries = 0
    /\ get_log = <<>>
    /\ get_result = NoResult

CacheParked ==
    /\ now = 0
    /\ cache_files = <<>>
    /\ saved = <<>>
    /\ loaded = NoResult

LoadParked ==
    /\ fetch_state = <<>>
    /\ fetch_value = <<>>
    /\ fetch_net = <<>>
    /\ attrs = <<>>
    /\ load_pc = "parked"
    /\ indexes = NoResult

PoolParked ==
    /\ download_workers = 0
    /\ save_texts = TRUE
    /\ manifest_handle = Closed
    /\ manifest = <<>>
    /\ files = {}
    /\ pc = "parked"
    /\ phases = <<>>
    /\ character_id = 0
    /\ card_voices_count = 0
    /\ batch = <<>>
    /\ batch_kind = "none"
    /\ batch_stop = FALSE
    /\ batch_return = NoResult
    /\ progress = 0
    /\ index = 0
    /\ remaining_target = 0
    /\ card_pos = 0
    /\ scen_pos = 0
    /\ produced = <<>>
    /\ docs_fetched = <<>>
    /\ faults = 0
    /\ crash_why = ""
    /\ transport = "open"
    /\ calls = 0

SelParked ==
    /\ sel_in = NoResult
    /\ sel_out = NoResult

SpecGetInit == GetInit /\ CacheParked /\ LoadParked /\ PoolParked /\ SelParked
SpecGetNext == GetAttemptOk \/ GetAttemptFail \/ GetSleep \/ GetLoopExit
SpecGet == SpecGetInit /\ [][SpecGetNext]_vars

SpecCacheInit == CacheInit /\ GetParked /\ LoadParked /\ PoolParked /\ SelParked
SpecCacheNext == CacheTick \/ CacheSave \/ CacheLoad
SpecCache == SpecCacheInit /\ [][SpecCacheNext]_vars

SpecLoadInit ==
    /\ LoadInit
    /\ wait_time = 3 /\ get_pc = "parked" /\ retries = 0 /\ get_log = <<>>
    /\ get_result = NoResult /\ saved = <<>> /\ loaded = NoResult
    /\ PoolParked
    /\ SelParked
SpecLoadNext ==
    \/ FetchStart \/ FetchCacheHit \/ FetchDownload \/ FetchRaises \/ FetchNoResponse
    \/ LoadCollect \/ LoadCollectRaised \/ LoadAbort \/ LoadBuildIndexes
    \/ ClientReady
SpecLoad == SpecLoadInit /\ [][SpecLoadNext]_vars

\* The download run of main.py: Client(wait_time=0.3, ...), the reference
\* data loaded, then start() called again and again.
Init ==
    /\ PoolInit
    /\ max_retries = 5 /\ wait_time = 3 /\ get_pc = "parked" /\ retries = 0
    /\ get_log = <<>> /\ get_result = NoResult
    /\ CacheParked
    /\ LoadParked
    /\ transport = "open"
    /\ calls = 0
    /\ SelParked
Next ==
    \/ StartInvocation
    \/ SoloNothing \/ SoloSubmit
    \/ ProfileMissing \/ ProfileFetched \/ ProfileFetchCrashes
    \/ CardsBegin \/ CardsLoopEnds \/ CardsFetched \/ CardsFetchCrashes
    \/ CollectOk \/ CollectFailed
    \/ JoinSolo \/ JoinProfile \/ JoinCards
    \/ Finish
    \/ TaskStart \/ TaskFetchOk \/ TaskFetchEmpty \/ TaskFetchRaises \/ TaskWriteFails
    \/ TaskFinish
Spec == Init /\ [][Next]_vars

\* The selection code on every small input.
SpecSelectInit == SelInit /\ GetParked /\ CacheParked /\ LoadParked /\ PoolParked
SpecSelectNext == SelectSolo \/ SelectVoices
SpecSelect == SpecSelectInit /\ [][SpecSelectNext]_vars

\* A Client whose operations are called directly.
SpecDirectNext ==
    \/ DirectCall \/ DirectReturn
    \/ ProfileMissing \/ ProfileFetched \/ ProfileFetchCrashes
    \/ CardsBegin \/ CardsLoopEnds \/ CardsFetched \/ CardsFetchCrashes
    \/ CollectOk \/ CollectFailed
    \/ JoinProfile \/ JoinCards
    \/ TaskStart \/ TaskFetchOk \/ TaskFetchEmpty \/ TaskFetchRaises \/ TaskWriteFails
    \/ TaskFinish
SpecDirect == Init /\ [][SpecDirectNext]_vars

\* The same run with the terminal interrupt.
SpecInterruptNext == Next \/ Interrupt \/ UnwindJoin \/ ClientExit
SpecInterrupt == Init /\ [][SpecInterruptNext]_vars

=============================================================================
